---------------------------- MODULE Spec2Model ----------------------------
(***************************************************************************)
(* py2neo/cypher/reading.py: the Cypher lexer grammar (CypherLexer.tokens), *)
(* the rule compilers word_list / symbol_list, and the statement splitter   *)
(* CypherLexer.get_statements, run by the RegexLexer driver.                *)
(*                                                                         *)
(* A text is a sequence of one-character strings.  Offsets are 0-based as   *)
(* in Python: the character at offset i of text is text[i + 1].            *)
(***************************************************************************)
EXTENDS Integers, Sequences, FiniteSets, TLC

(***************************************************************************)
(* Characters and the character classes the regular expressions use.        *)
(***************************************************************************)
\* The backquote character (code point 96), which a TLA+ string cannot hold.
Backtick == "BACKTICK"

Ascii ==
  << " ","!","\"","#","$","%","&","'","(",")","*","+",",","-",".","/",
     "0","1","2","3","4","5","6","7","8","9",":",";","<","=",">","?",
     "@","A","B","C","D","E","F","G","H","I","J","K","L","M","N","O",
     "P","Q","R","S","T","U","V","W","X","Y","Z","[","\\","]","^","_",
     Backtick,"a","b","c","d","e","f","g","h","i","j","k","l","m","n","o",
     "p","q","r","s","t","u","v","w","x","y","z","{","|","}","~" >>

\* ord(c) for the printable ASCII characters (" " is 32).
Ord(c) == 31 + (CHOOSE i \in 1..Len(Ascii) : Ascii[i] = c)

UpperOf ==
  [a |-> "A", b |-> "B", c |-> "C", d |-> "D", e |-> "E", f |-> "F", g |-> "G",
   h |-> "H", i |-> "I", j |-> "J", k |-> "K", l |-> "L", m |-> "M", n |-> "N",
   o |-> "O", p |-> "P", q |-> "Q", r |-> "R", s |-> "S", t |-> "T", u |-> "U",
   v |-> "V", w |-> "W", x |-> "X", y |-> "Y", z |-> "Z"]

UpperLetters ==
  {"A","B","C","D","E","F","G","H","I","J","K","L","M","N","O","P","Q","R","S",
   "T","U","V","W","X","Y","Z"}

Letters == UpperLetters \cup DOMAIN UpperOf

Digits == {"0","1","2","3","4","5","6","7","8","9"}

HexDigits == Digits \cup {"a","b","c","d","e","f","A","B","C","D","E","F"}

\* \s
Space == {" ", "\t", "\n", "\r", "\f"}

\* \w
WordChars == Letters \cup Digits \cup {"_"}

\* [A-Za-z_]
IdentStart == Letters \cup {"_"}

\* [0-9A-Za-z_]
IdentChars == Letters \cup Digits \cup {"_"}

\* [0-9A-Za-z_\.]
DottedChars == IdentChars \cup {"."}

\* re.IGNORECASE: two characters match when they agree up to letter case.
Fold(c) == IF c \in DOMAIN UpperOf THEN UpperOf[c] ELSE c

\* The character at offset i of text, "" outside it.
Ch(text, i) == IF i >= 0 /\ i < Len(text) THEN text[i + 1] ELSE ""

\* text[a:b]
Slice(text, a, b) == SubSeq(text, a + 1, b)

\* The offset after the longest run of characters of class at offset i (X*).
RECURSIVE SkipWhile(_, _, _)
SkipWhile(text, i, class) ==
  IF Ch(text, i) \in class THEN SkipWhile(text, i + 1, class) ELSE i

\* The offset after the longest run of characters outside class at offset i.
RECURSIVE SkipUnless(_, _, _)
SkipUnless(text, i, class) ==
  IF Ch(text, i) # "" /\ Ch(text, i) \notin class
  THEN SkipUnless(text, i + 1, class)
  ELSE i

\* \b at offset i.
WordBoundary(text, i) ==
  (Ch(text, i - 1) \in WordChars) # (Ch(text, i) \in WordChars)

\* ^ under re.MULTILINE at offset i.
LineStart(text, i) == i = 0 \/ Ch(text, i - 1) = "\n"

(***************************************************************************)
(* Grammar tables.                                                         *)
(***************************************************************************)
cypher_keywords ==
  << <<"A","S">>,
     <<"A","S","C">>,
     <<"A","S","C","E","N","D","I","N","G">>,
     <<"A","S","S","E","R","T">>,
     <<"A","S","S","E","R","T"," ","E","X","I","S","T","S">>,
     <<"C","A","L","L">>,
     <<"C","O","N","S","T","R","A","I","N","T"," ","O","N">>,
     <<"C","R","E","A","T","E">>,
     <<"C","R","E","A","T","E"," ","U","N","I","Q","U","E">>,
     <<"C","Y","P","H","E","R">>,
     <<"D","E","L","E","T","E">>,
     <<"D","E","S","C">>,
     <<"D","E","S","C","E","N","D","I","N","G">>,
     <<"D","E","T","A","C","H"," ","D","E","L","E","T","E">>,
     <<"D","O">>,
     <<"D","R","O","P">>,
     <<"E","X","P","L","A","I","N">>,
     <<"F","I","E","L","D","T","E","R","M","I","N","A","T","O","R">>,
     <<"F","O","R","E","A","C","H">>,
     <<"F","R","O","M">>,
     <<"G","R","A","P","H">>,
     <<"G","R","A","P","H"," ","A","T">>,
     <<"G","R","A","P","H"," ","O","F">>,
     <<"I","N","D","E","X"," ","O","N">>,
     <<"I","N","T","O">>,
     <<"I","S"," ","N","O","D","E"," ","K","E","Y">>,
     <<"I","S"," ","U","N","I","Q","U","E">>,
     <<"L","I","M","I","T">>,
     <<"L","O","A","D">>,
     <<"L","O","A","D"," ","C","S","V">>,
     <<"M","A","T","C","H">>,
     <<"M","E","R","G","E">>,
     <<"O","N"," ","C","R","E","A","T","E"," ","S","E","T">>,
     <<"O","N"," ","M","A","T","C","H"," ","S","E","T">>,
     <<"O","P","T","I","O","N","A","L"," ","M","A","T","C","H">>,
     <<"O","R","D","E","R"," ","B","Y">>,
     <<"P","E","R","S","I","S","T">>,
     <<"_","P","R","A","G","M","A">>,
     <<"P","R","O","F","I","L","E">>,
     <<"R","E","M","O","V","E">>,
     <<"R","E","L","O","C","A","T","E">>,
     <<"R","E","T","U","R","N">>,
     <<"R","E","T","U","R","N"," ","D","I","S","T","I","N","C","T">>,
     <<"S","E","T">>,
     <<"S","K","I","P">>,
     <<"S","N","A","P","S","H","O","T">>,
     <<"S","O","U","R","C","E">>,
     <<"S","T","A","R","T">>,
     <<"T","A","R","G","E","T">>,
     <<"U","N","I","O","N">>,
     <<"U","N","I","O","N"," ","A","L","L">>,
     <<"U","N","W","I","N","D">>,
     <<"U","S","I","N","G"," ","I","N","D","E","X">>,
     <<"U","S","I","N","G"," ","J","O","I","N"," ","O","N">>,
     <<"U","S","I","N","G"," ","P","E","R","I","O","D","I","C"," ","C","O","M","M","I","T">>,
     <<"U","S","I","N","G"," ","S","C","A","N">>,
     <<"W","H","E","R","E">>,
     <<"W","I","T","H">>,
     <<"W","I","T","H"," ","D","I","S","T","I","N","C","T">>,
     <<"W","I","T","H"," ","H","E","A","D","E","R","S">>,
     <<"Y","I","E","L","D">>,
     <<">",">">> >>

cypher_pseudo_keywords ==
  << <<"B","E","G","I","N">>,
     <<"C","O","M","M","I","T">>,
     <<"R","O","L","L","B","A","C","K">> >>

cypher_operator_symbols ==
  << <<"!","=">>,
     <<"%">>,
     <<"*">>,
     <<"+">>,
     <<"+","=">>,
     <<"-">>,
     <<".">>,
     <<"/">>,
     <<"<">>,
     <<"<","=">>,
     <<"<",">">>,
     <<"=">>,
     <<"=","~">>,
     <<">">>,
     <<">","=">>,
     <<"^">> >>

cypher_operator_words ==
  << <<"A","N","D">>,
     <<"C","A","S","E">>,
     <<"C","O","N","T","A","I","N","S">>,
     <<"D","I","S","T","I","N","C","T">>,
     <<"E","L","S","E">>,
     <<"E","N","D">>,
     <<"E","N","D","S"," ","W","I","T","H">>,
     <<"I","N">>,
     <<"I","S"," ","N","O","T"," ","N","U","L","L">>,
     <<"I","S"," ","N","U","L","L">>,
     <<"N","O","T">>,
     <<"O","R">>,
     <<"S","T","A","R","T","S"," ","W","I","T","H">>,
     <<"T","H","E","N">>,
     <<"W","H","E","N">>,
     <<"X","O","R">> >>

cypher_constants ==
  << <<"n","u","l","l">>,
     <<"t","r","u","e">>,
     <<"f","a","l","s","e">> >>

(***************************************************************************)
(* Pattern Rule Compiler: word_list and symbol_list.  A compiled pattern is *)
(* the sequence of characters of the regular expression string.            *)
(***************************************************************************)

\* Python's str < str: lexicographic by code point, a strict prefix first.
RECURSIVE StrLess(_, _)
StrLess(a, b) ==
  IF b = <<>> THEN FALSE
  ELSE IF a = <<>> THEN TRUE
  ELSE IF Head(a) = Head(b) THEN StrLess(Tail(a), Tail(b))
  ELSE Ord(Head(a)) < Ord(Head(b))

\* sorted(...) of a list of (pattern, token_type) tuples: the patterns decide
\* (they are distinct), and equal elements keep their order.  The element at
\* index k of s moves to the position that counts the elements before it.
SortedPosition(s, k) ==
  1 + Cardinality({j \in 1..Len(s) :
                     \/ StrLess(s[j][1], s[k][1])
                     \/ ~StrLess(s[k][1], s[j][1]) /\ j < k})

sorted(s) ==
  [p \in 1..Len(s) |-> s[CHOOSE k \in 1..Len(s) : SortedPosition(s, k) = p]]

reversed(s) == [i \in 1..Len(s) |-> s[Len(s) + 1 - i]]

\* word.replace(" ", r"\s+")
RECURSIVE ReplaceSpaces(_)
ReplaceSpaces(word) ==
  IF word = <<>> THEN <<>>
  ELSE (IF Head(word) = " " THEN <<"\\", "s", "+">> ELSE <<Head(word)>>)
       \o ReplaceSpaces(Tail(word))

\* "".join("\\" + ch for ch in symbol)
RECURSIVE EscapeAll(_)
EscapeAll(symbol) ==
  IF symbol = <<>> THEN <<>>
  ELSE <<"\\", Head(symbol)>> \o EscapeAll(Tail(symbol))

\* WordPatterns without the r"\b" after each word.
WordPatterns_NoBoundary(words, token_type) ==
  [i \in 1..Len(words) |-> <<ReplaceSpaces(words[i]), token_type>>]

WordPatterns(words, token_type) ==
  [i \in 1..Len(words) |-> <<ReplaceSpaces(words[i]) \o <<"\\", "b">>, token_type>>]

SymbolPatterns(symbols, token_type) ==
  [i \in 1..Len(symbols) |-> <<EscapeAll(symbols[i]), token_type>>]

\* word_list without reversed(): the patterns in ascending order.
word_list_ascending(words, token_type) == sorted(WordPatterns(words, token_type))

word_list(words, token_type) == reversed(sorted(WordPatterns(words, token_type)))

symbol_list(symbols, token_type) ==
  reversed(sorted(SymbolPatterns(symbols, token_type)))

(***************************************************************************)
(* Matching.  A match is [end |-> e, groups |-> <<<<s1, e1>>, ...>>]: the   *)
(* offset after the match and the spans of the groups the rule's action     *)
(* reads (the whole match for a plain token type).  NoMatch has end = -1.   *)
(***************************************************************************)
NoMatch == [end |-> -1, groups |-> <<>>]

Whole(pos, e) ==
  IF e < 0 THEN NoMatch ELSE [end |-> e, groups |-> << <<pos, e>> >>]

\* A compiled pattern at offset p, from its i-th character on: literal
\* characters (IGNORECASE), \s+, \b and escaped symbols.  The offset after
\* the match, or -1.
RECURSIVE MatchPattern(_, _, _, _)
MatchPattern(pat, i, text, p) ==
  IF i > Len(pat) THEN p
  ELSE IF pat[i] = "\\"
  THEN IF pat[i + 1] = "s" /\ i + 2 <= Len(pat) /\ pat[i + 2] = "+"
       THEN IF Ch(text, p) \in Space
            THEN MatchPattern(pat, i + 3, text, SkipWhile(text, p, Space))
            ELSE -1
       ELSE IF pat[i + 1] = "b"
       THEN IF WordBoundary(text, p) THEN MatchPattern(pat, i + 2, text, p) ELSE -1
       ELSE IF Ch(text, p) = pat[i + 1]
            THEN MatchPattern(pat, i + 2, text, p + 1)
            ELSE -1
  ELSE IF Fold(Ch(text, p)) = Fold(pat[i])
       THEN MatchPattern(pat, i + 1, text, p + 1)
       ELSE -1

\* A literal word at offset p (IGNORECASE); the offset after it, or -1.
RECURSIVE MatchWord(_, _, _)
MatchWord(word, text, p) ==
  IF word = <<>> THEN p
  ELSE IF Fold(Ch(text, p)) = Fold(Head(word))
       THEN MatchWord(Tail(word), text, p + 1)
       ELSE -1

\* '(?:\\[bfnrt"'\\]|\\u[0-9A-Fa-f]{4}|\\U[0-9A-Fa-f]{8}|[^\\'])*' with quote
\* q, from offset i inside the literal.  Under IGNORECASE \u and \U both match
\* either case, and the \u alternative (four digits) is tried first; a further
\* four digits are then ordinary characters.
RECURSIVE StringBody(_, _, _)
StringBody(text, i, q) ==
  LET c == Ch(text, i)
      d == Ch(text, i + 1)
  IN  IF c = "" THEN -1
      ELSE IF c = q THEN i + 1
      ELSE IF c = "\\"
      THEN IF Fold(d) \in {"B", "F", "N", "R", "T", "\"", "'", "\\"}
           THEN StringBody(text, i + 2, q)
           ELSE IF Fold(d) = "U"
                   /\ \A k \in 2..5 : Ch(text, i + k) \in HexDigits
           THEN StringBody(text, i + 6, q)
           ELSE -1
      ELSE StringBody(text, i + 1, q)

MatchString(text, pos, q) ==
  IF Ch(text, pos) = q THEN StringBody(text, pos + 1, q) ELSE -1

\* `(?:``|[^`])+` : from offset i with n units read; best is the end of the
\* longest match found so far (the + is greedy, so a later end wins).
RECURSIVE BackquotedBody(_, _, _, _)
BackquotedBody(text, i, n, best) ==
  LET c == Ch(text, i)
      cand == IF n >= 1 /\ c = Backtick THEN i + 1 ELSE best
  IN  IF c = "" THEN best
      ELSE IF c = Backtick
      THEN IF Ch(text, i + 1) = Backtick
           THEN BackquotedBody(text, i + 2, n + 1, cand)
           ELSE cand
      ELSE BackquotedBody(text, i + 1, n + 1, cand)

MatchBackquoted(text, pos) ==
  IF Ch(text, pos) = Backtick THEN BackquotedBody(text, pos + 1, 0, -1) ELSE -1

\* [A-Za-z_][0-9A-Za-z_]*
MatchIdent(text, pos) ==
  IF Ch(text, pos) \in IdentStart THEN SkipWhile(text, pos + 1, IdentChars) ELSE -1

\* [A-Za-z_][0-9A-Za-z_\.]*
MatchDotted(text, pos) ==
  IF Ch(text, pos) \in IdentStart THEN SkipWhile(text, pos + 1, DottedChars) ELSE -1

\* The offset of the first "\n" at or after offset i, or -1.
RECURSIVE LineEnd(_, _)
LineEnd(text, i) ==
  IF i >= Len(text) THEN -1
  ELSE IF text[i + 1] = "\n" THEN i
  ELSE LineEnd(text, i + 1)

\* MatchLineComment without its "^": .*//.*\n from any offset of a line.
MatchLineComment_Anywhere(text, pos) ==
  LET nl == LineEnd(text, pos)
  IN  IF nl >= 0
         /\ \E k \in pos..(nl - 2) : Ch(text, k) = "/" /\ Ch(text, k + 1) = "/"
      THEN nl + 1
      ELSE -1

\* ^.*//.*\n : "." matches no newline, so the match is the rest of the line
\* through its newline, and the line must hold "//".
MatchLineComment(text, pos) ==
  LET nl == LineEnd(text, pos)
  IN  IF LineStart(text, pos) /\ nl >= 0
         /\ \E k \in pos..(nl - 2) : Ch(text, k) = "/" /\ Ch(text, k + 1) = "/"
      THEN nl + 1
      ELSE -1

\* (e[+-]?[0-9]+)? at offset i: the offset after the exponent, or i without one.
Exponent(text, i) ==
  LET s == IF Ch(text, i + 1) \in {"+", "-"} THEN i + 2 ELSE i + 1
  IN  IF Fold(Ch(text, i)) = "E" /\ Ch(text, s) \in Digits
      THEN SkipWhile(text, s, Digits)
      ELSE i

\* MatchFloat with an optional point, [0-9]*\.?[0-9]*(e[+-]?[0-9]+)? .
MatchFloat_OptionalPoint(text, pos) ==
  LET d == SkipWhile(text, pos, Digits)
  IN  Exponent(text, SkipWhile(text, IF Ch(text, d) = "." THEN d + 1 ELSE d, Digits))

\* [0-9]*\.[0-9]*(e[+-]?[0-9]+)?
MatchFloat(text, pos) ==
  LET d == SkipWhile(text, pos, Digits)
  IN  IF Ch(text, d) = "." THEN Exponent(text, SkipWhile(text, d + 1, Digits)) ELSE -1

\* [0-9]+e[+-]?[0-9]+
MatchFloatExp(text, pos) ==
  LET d == SkipWhile(text, pos, Digits)
  IN  IF d > pos /\ Exponent(text, d) > d THEN Exponent(text, d) ELSE -1

\* \)\s*<?-+>?\s*\( with close = ")" and open = "(", lt and gt telling
\* whether <? and >? are part of the expression.
MatchAdjacency(text, pos, close, lt, gt, open) ==
  LET w1 == SkipWhile(text, pos + 1, Space)
      a  == IF lt /\ Ch(text, w1) = "<" THEN w1 + 1 ELSE w1
      d  == SkipWhile(text, a, {"-"})
      g  == IF gt /\ Ch(text, d) = ">" THEN d + 1 ELSE d
      w2 == SkipWhile(text, g, Space)
  IN  IF Ch(text, pos) = close /\ d > a /\ Ch(text, w2) = open THEN w2 + 1 ELSE -1

\* One character of class.
MatchClass(text, pos, class) == IF Ch(text, pos) \in class THEN pos + 1 ELSE -1

\* One or more characters of class.
MatchRun(text, pos, class) ==
  IF Ch(text, pos) \in class THEN SkipWhile(text, pos, class) ELSE -1

\* One or more characters outside class.
MatchRunNot(text, pos, class) ==
  LET e == SkipUnless(text, pos, class) IN IF e > pos THEN e ELSE -1

\* Grouped3 with the spaces matched outside any group, as in (:)\s*(...).
Grouped3_SpaceUngrouped(pos, h, w, t, min) ==
  IF h < 0 \/ w - h < min \/ t < 0 THEN NoMatch
  ELSE [end |-> t, groups |-> << <<pos, h>>, <<w, w>>, <<w, t>> >>]

\* Three groups head, \s* or \s+ (min spaces), tail: head ends at h, tail is
\* matched by the caller at the offset after the spaces and ends at t(w).
Grouped3(pos, h, w, t, min) ==
  IF h < 0 \/ w - h < min \/ t < 0 THEN NoMatch
  ELSE [end |-> t, groups |-> << <<pos, h>>, <<h, w>>, <<w, t>> >>]

(***************************************************************************)
(* CypherLexer.tokens: the states and their ordered rules.  A rule is       *)
(* [re, pat, action, new]: re names the regular expression (a rule of a     *)
(* named group is "<group>[<index>]", an inline rule is its expression),    *)
(* pat is the compiled pattern of a word_list / symbol_list rule, action is *)
(* <<type>> for a plain token type and the types of bygroups(...)           *)
(* otherwise, new is the state transition as a sequence of stack            *)
(* operations ("#pop", "#push" or a state to push).                         *)
(***************************************************************************)
Rule(re, action, new) == [re |-> re, pat |-> <<>>, action |-> action, new |-> new]

Compiled(list) ==
  [i \in 1..Len(list) |->
     [re |-> "compiled", pat |-> list[i][1], action |-> <<list[i][2]>>, new |-> <<>>]]

comments ==
  << Rule("comments[0]", <<"Comment.Single">>, <<>>),
     Rule("comments[1]", <<"Comment.Multiline">>, <<"multiline-comments">>) >>

multiline_comments ==
  << Rule("/\\*", <<"Comment.Multiline">>, <<"multiline-comments">>),
     Rule("\\*/", <<"Comment.Multiline">>, <<"#pop">>),
     Rule("[^/*]+", <<"Comment.Multiline">>, <<>>),
     Rule("[/*]", <<"Comment.Multiline">>, <<>>) >>

\* strings with the rule of the single-quoted literal only.
strings_single_quoted ==
  << Rule("strings[0]", <<"String">>, <<>>) >>

strings ==
  << Rule("strings[0]", <<"String">>, <<>>),
     Rule("strings[1]", <<"String">>, <<>>) >>

keywords == Compiled(word_list(cypher_keywords, "Keyword"))

pseudo_keywords == Compiled(word_list(cypher_pseudo_keywords, "Keyword"))

labels ==
  << Rule("labels[0]", <<"Punctuation", "Whitespace", "Name.Label">>, <<>>),
     Rule("labels[1]", <<"Punctuation", "Whitespace", "Name.Label">>, <<>>) >>

operators ==
  Compiled(word_list(cypher_operator_words, "Operator"))
  \o Compiled(symbol_list(cypher_operator_symbols, "Operator"))

procedures ==
  << Rule("procedures[0]", <<"Keyword", "Whitespace", "Name.Function">>, <<>>) >>

functions ==
  << Rule("functions[0]", <<"Name.Function", "Whitespace", "Punctuation">>, <<"in-()">>) >>

aliases ==
  << Rule("aliases[0]", <<"Keyword", "Whitespace", "Name.Variable">>, <<>>),
     Rule("aliases[1]", <<"Keyword", "Whitespace", "Name.Variable">>, <<>>) >>

variables ==
  << Rule("variables[0]", <<"Name.Variable">>, <<>>),
     Rule("variables[1]", <<"Name.Variable">>, <<>>) >>

parameters ==
  << Rule("parameters[0]", <<"Punctuation", "Name.Variable.Global">>, <<>>),
     Rule("parameters[1]", <<"Punctuation", "Name.Variable.Global">>, <<>>) >>

constants == Compiled(word_list(cypher_constants, "Name.Constant"))

numbers ==
  << Rule("numbers[0]", <<"Number.Float">>, <<>>),
     Rule("numbers[1]", <<"Number.Float">>, <<>>),
     Rule("numbers[2]", <<"Number.Integer">>, <<>>) >>

whitespace == << Rule("\\s+", <<"Whitespace">>, <<>>) >>

expressions ==
  procedures \o functions \o constants \o aliases \o variables \o parameters
  \o numbers

\* root with the closing parenthesis rule of in-(), which pops.
root_pops ==
  strings \o comments \o keywords \o pseudo_keywords
  \o << Rule("[,;]", <<"Punctuation">>, <<>>) >>
  \o labels \o operators \o expressions \o whitespace
  \o << Rule("\\(", <<"Punctuation">>, <<"in-()">>),
        Rule("\\)", <<"Punctuation">>, <<"#pop">>),
        Rule("\\[", <<"Punctuation">>, <<"in-[]">>),
        Rule("\\{", <<"Punctuation">>, <<"in-{}">>) >>

root ==
  strings \o comments \o keywords \o pseudo_keywords
  \o << Rule("[,;]", <<"Punctuation">>, <<>>) >>
  \o labels \o operators \o expressions \o whitespace
  \o << Rule("\\(", <<"Punctuation">>, <<"in-()">>),
        Rule("\\[", <<"Punctuation">>, <<"in-[]">>),
        Rule("\\{", <<"Punctuation">>, <<"in-{}">>) >>

\* in-() without include('keywords').
in_paren_without_keywords ==
  strings \o comments
  \o << Rule("[,|]", <<"Punctuation">>, <<>>) >>
  \o labels \o operators \o expressions \o whitespace
  \o << Rule("\\(", <<"Punctuation">>, <<"#push">>),
        Rule("\\)\\s*<?-+>?\\s*\\(", <<"Punctuation">>, <<>>),
        Rule("\\)\\s*<?-+\\s*\\[", <<"Punctuation">>, <<"#pop", "in-[]">>),
        Rule("\\)", <<"Punctuation">>, <<"#pop">>),
        Rule("\\[", <<"Punctuation">>, <<"in-[]">>),
        Rule("\\{", <<"Punctuation">>, <<"in-{}">>) >>

in_paren ==
  strings \o comments \o keywords
  \o << Rule("[,|]", <<"Punctuation">>, <<>>) >>
  \o labels \o operators \o expressions \o whitespace
  \o << Rule("\\(", <<"Punctuation">>, <<"#push">>),
        Rule("\\)\\s*<?-+>?\\s*\\(", <<"Punctuation">>, <<>>),
        Rule("\\)\\s*<?-+\\s*\\[", <<"Punctuation">>, <<"#pop", "in-[]">>),
        Rule("\\)", <<"Punctuation">>, <<"#pop">>),
        Rule("\\[", <<"Punctuation">>, <<"in-[]">>),
        Rule("\\{", <<"Punctuation">>, <<"in-{}">>) >>

in_bracket ==
  strings \o comments
  \o << Rule("WHERE\\b", <<"Keyword">>, <<>>),
        Rule("[,|]", <<"Punctuation">>, <<>>) >>
  \o labels \o operators \o expressions \o whitespace
  \o << Rule("\\(", <<"Punctuation">>, <<"in-()">>),
        Rule("\\[", <<"Punctuation">>, <<"#push">>),
        Rule("\\]\\s*-+>?\\s*\\(", <<"Punctuation">>, <<"#pop", "in-()">>),
        Rule("\\]", <<"Punctuation">>, <<"#pop">>),
        Rule("\\{", <<"Punctuation">>, <<"in-{}">>) >>

in_brace ==
  strings \o comments
  \o << Rule("[,:]", <<"Punctuation">>, <<>>) >>
  \o operators \o expressions \o whitespace
  \o << Rule("\\(", <<"Punctuation">>, <<"in-()">>),
        Rule("\\[", <<"Punctuation">>, <<"in-[]">>),
        Rule("\\{", <<"Punctuation">>, <<"#push">>),
        Rule("\\}", <<"Punctuation">>, <<"#pop">>) >>

\* CypherLexer.tokens[state]
TokenDefs(state) ==
  CASE state = "root" -> root
    [] state = "in-()" -> in_paren
    [] state = "in-[]" -> in_bracket
    [] state = "in-{}" -> in_brace
    [] state = "multiline-comments" -> multiline_comments

\* The regular expression of a rule at offset pos: its match, or NoMatch.
RuleMatch(rule, text, pos) ==
  LET re == rule.re
      sp == SkipWhile(text, pos + 1, Space)
  IN
  CASE re = "compiled" -> Whole(pos, MatchPattern(rule.pat, 1, text, pos))
    \* '(?:\\[bfnrt\"'\\]|\\u[0-9A-Fa-f]{4}|\\U[0-9A-Fa-f]{8}|[^\\'])*'
    [] re = "strings[0]" -> Whole(pos, MatchString(text, pos, "'"))
    \* "(?:\\[bfnrt\'"\\]|\\u[0-9A-Fa-f]{4}|\\U[0-9A-Fa-f]{8}|[^\\"])*"
    [] re = "strings[1]" -> Whole(pos, MatchString(text, pos, "\""))
    \* ^.*//.*\n
    [] re = "comments[0]" -> Whole(pos, MatchLineComment(text, pos))
    \* /\*
    [] re \in {"comments[1]", "/\\*"} -> Whole(pos, MatchWord(<<"/", "*">>, text, pos))
    [] re = "\\*/" -> Whole(pos, MatchWord(<<"*", "/">>, text, pos))
    [] re = "[^/*]+" -> Whole(pos, MatchRunNot(text, pos, {"/", "*"}))
    [] re = "[/*]" -> Whole(pos, MatchClass(text, pos, {"/", "*"}))
    \* (:)(\s*)(`(?:``|[^`])+`)
    [] re = "labels[0]" ->
         Grouped3(pos, MatchClass(text, pos, {":"}), sp, MatchBackquoted(text, sp), 0)
    \* (:)(\s*)([A-Za-z_][0-9A-Za-z_]*)
    [] re = "labels[1]" ->
         Grouped3(pos, MatchClass(text, pos, {":"}), sp, MatchIdent(text, sp), 0)
    \* (CALL)(\s+)([A-Za-z_][0-9A-Za-z_\.]*)
    [] re = "procedures[0]" ->
         LET h == MatchWord(<<"C", "A", "L", "L">>, text, pos)
             w == SkipWhile(text, h, Space)
         IN  Grouped3(pos, h, w, MatchDotted(text, w), 1)
    \* ([A-Za-z_][0-9A-Za-z_\.]*)(\s*)(\()
    [] re = "functions[0]" ->
         LET h == MatchDotted(text, pos)
             w == SkipWhile(text, h, Space)
         IN  Grouped3(pos, h, w, MatchClass(text, w, {"("}), 0)
    \* (AS)(\s+)(`(?:``|[^`])+`)
    [] re = "aliases[0]" ->
         LET h == MatchWord(<<"A", "S">>, text, pos)
             w == SkipWhile(text, h, Space)
         IN  Grouped3(pos, h, w, MatchBackquoted(text, w), 1)
    \* (AS)(\s+)([A-Za-z_][0-9A-Za-z_]*)
    [] re = "aliases[1]" ->
         LET h == MatchWord(<<"A", "S">>, text, pos)
             w == SkipWhile(text, h, Space)
         IN  Grouped3(pos, h, w, MatchIdent(text, w), 1)
    \* `(?:``|[^`])+`
    [] re = "variables[0]" -> Whole(pos, MatchBackquoted(text, pos))
    \* [A-Za-z_][0-9A-Za-z_]*
    [] re = "variables[1]" -> Whole(pos, MatchIdent(text, pos))
    \* (\$)(`(?:``|[^`])+`)
    [] re = "parameters[0]" ->
         LET e == IF Ch(text, pos) = "$" THEN MatchBackquoted(text, pos + 1) ELSE -1
         IN  IF e < 0 THEN NoMatch
             ELSE [end |-> e, groups |-> << <<pos, pos + 1>>, <<pos + 1, e>> >>]
    \* (\$)([A-Za-z_][0-9A-Za-z_]*)
    [] re = "parameters[1]" ->
         LET e == IF Ch(text, pos) = "$" THEN MatchIdent(text, pos + 1) ELSE -1
         IN  IF e < 0 THEN NoMatch
             ELSE [end |-> e, groups |-> << <<pos, pos + 1>>, <<pos + 1, e>> >>]
    \* [0-9]*\.[0-9]*(e[+-]?[0-9]+)?
    [] re = "numbers[0]" -> Whole(pos, MatchFloat(text, pos))
    \* [0-9]+e[+-]?[0-9]+
    [] re = "numbers[1]" -> Whole(pos, MatchFloatExp(text, pos))
    \* [0-9]+
    [] re = "numbers[2]" -> Whole(pos, MatchRun(text, pos, Digits))
    [] re = "\\s+" -> Whole(pos, MatchRun(text, pos, Space))
    [] re = "WHERE\\b" ->
         LET e == MatchWord(<<"W", "H", "E", "R", "E">>, text, pos)
         IN  Whole(pos, IF e >= 0 /\ WordBoundary(text, e) THEN e ELSE -1)
    [] re = "[,;]" -> Whole(pos, MatchClass(text, pos, {",", ";"}))
    [] re = "[,|]" -> Whole(pos, MatchClass(text, pos, {",", "|"}))
    [] re = "[,:]" -> Whole(pos, MatchClass(text, pos, {",", ":"}))
    [] re = "\\(" -> Whole(pos, MatchClass(text, pos, {"("}))
    [] re = "\\[" -> Whole(pos, MatchClass(text, pos, {"["}))
    [] re = "\\{" -> Whole(pos, MatchClass(text, pos, {"{"}))
    [] re = "\\)" -> Whole(pos, MatchClass(text, pos, {")"}))
    [] re = "\\]" -> Whole(pos, MatchClass(text, pos, {"]"}))
    [] re = "\\}" -> Whole(pos, MatchClass(text, pos, {"}"}))
    [] re = "\\)\\s*<?-+>?\\s*\\(" ->
         Whole(pos, MatchAdjacency(text, pos, ")", TRUE, TRUE, "("))
    [] re = "\\)\\s*<?-+\\s*\\[" ->
         Whole(pos, MatchAdjacency(text, pos, ")", TRUE, FALSE, "["))
    [] re = "\\]\\s*-+>?\\s*\\(" ->
         Whole(pos, MatchAdjacency(text, pos, "]", FALSE, TRUE, "("))

(***************************************************************************)
(* The tokenizer driver (RegexLexer.get_tokens_unprocessed, which           *)
(* CypherLexer inherits and get_statements calls) and get_statements.       *)
(***************************************************************************)

\* The rules of rules whose expression matches at offset pos, by index.
Matching(rules, text, pos) ==
  {i \in 1..Len(rules) : RuleMatch(rules[i], text, pos).end >= 0}

Least(S) == CHOOSE i \in S : \A j \in S : i <= j

\* The first rule of rules whose expression matches at offset pos:
\* [rule |-> its index, m |-> its match], rule = 0 when none does.
FirstMatch(rules, text, pos) ==
  CHOOSE found \in
    { IF matching = {} THEN [rule |-> 0, m |-> NoMatch]
      ELSE [rule |-> Least(matching),
            m |-> RuleMatch(rules[Least(matching)], text, pos)] :
      matching \in {Matching(rules, text, pos)} } : TRUE

Token(index, type, value) == [index |-> index, type |-> type, value |-> value]

\* The tokens a matched rule yields: the whole match for a plain token type,
\* one token per non-empty group for bygroups.
RECURSIVE GroupTokens(_, _, _, _)
GroupTokens(action, groups, text, i) ==
  IF i > Len(action) \/ i > Len(groups) THEN <<>>
  ELSE LET g == groups[i]
       IN  (IF g[2] > g[1]
            THEN << Token(g[1], action[i], Slice(text, g[1], g[2])) >>
            ELSE <<>>)
           \o GroupTokens(action, groups, text, i + 1)

Yielded(rule, m, text) ==
  IF Len(rule.action) = 1
  THEN << Token(m.groups[1][1], rule.action[1],
                Slice(text, m.groups[1][1], m.groups[1][2])) >>
  ELSE GroupTokens(rule.action, m.groups, text, 1)

\* The state transition of a rule: its stack operations, applied in order.
RECURSIVE Transition(_, _)
Transition(stack, new) ==
  IF new = <<>> THEN stack
  ELSE Transition(
         CASE Head(new) = "#pop" -> SubSeq(stack, 1, Len(stack) - 1)
           [] Head(new) = "#push" -> Append(stack, stack[Len(stack)])
           [] OTHER -> Append(stack, Head(new)),
         Tail(new))

\* "".join(fragments)
RECURSIVE Join(_)
Join(fragments) ==
  IF fragments = <<>> THEN <<>> ELSE Head(fragments) \o Join(Tail(fragments))

\* str.strip()
RECURSIVE LStrip(_)
LStrip(s) == IF s # <<>> /\ Head(s) \in Space THEN LStrip(Tail(s)) ELSE s

RECURSIVE RStrip(_)
RStrip(s) ==
  IF s # <<>> /\ s[Len(s)] \in Space THEN RStrip(SubSeq(s, 1, Len(s) - 1)) ELSE s

Strip(s) == RStrip(LStrip(s))

\* Flush without the strip().
Flush_NoStrip(stmts, frags) ==
  LET statement == Join(frags)
  IN  IF statement # <<>> THEN Append(stmts, statement) ELSE stmts

\* statement = "".join(fragments).strip(); yielded if non-empty.
Flush(stmts, frags) ==
  LET statement == Strip(Join(frags))
  IN  IF statement # <<>> THEN Append(stmts, statement) ELSE stmts

(***************************************************************************)
(* The input texts of the model.                                           *)
(***************************************************************************)
Range(s) == {s[i] : i \in 1..Len(s)}

\* (a)-[:REL]->(b)
Sample_pattern ==
  <<"(","a",")","-","[",":","R","E","L","]","-",">","(","b",")">>

\* CREATE UNIQUE (n)
Sample_create_unique ==
  <<"C","R","E","A","T","E"," ","U","N","I","Q","U","E"," ","(","n",")">>

\* <=
Sample_le ==
  <<"<","=">>

\* MATCH (n) RETURN n; MATCH (m) RETURN m;
Sample_two_statements ==
  <<"M","A","T","C","H"," ","(","n",")"," ","R","E","T","U","R","N"," ","n",";"," ","M","A","T","C","H"," ","(","m",")"," ","R","E","T","U","R","N"," ","m",";">>

\* ;;  ;
Sample_empty_statements ==
  <<";",";"," "," ",";">>

\* RETURN "a;b"
Sample_string ==
  <<"R","E","T","U","R","N"," ","\"","a",";","b","\"">>

\* RETURN 1; // c\nRETURN 2;
Sample_line_comment ==
  <<"R","E","T","U","R","N"," ","1",";"," ","/","/"," ","c","\n","R","E","T","U","R","N"," ","2",";">>

\* (a)-[r]->(b)<-[s]-(c)
Sample_chain ==
  <<"(","a",")","-","[","r","]","-",">","(","b",")","<","-","[","s","]","-","(","c",")">>

\* (a)-->(b)
Sample_arrows ==
  <<"(","a",")","-","-",">","(","b",")">>

\* /* a /* b;\n */ c */
Sample_block_comment ==
  <<"/","*"," ","a"," ","/","*"," ","b",";","\n"," ","*","/"," ","c"," ","*","/">>

\* [CALL db.x, 1 AS y] {AS `p q`} $p $`p` :`L` : L f (x) ?
Sample_grouped ==
  <<"[","C","A","L","L"," ","d","b",".","x",","," ","1"," ","A","S"," ","y","]"," ","{","A","S"," ",Backtick,"p"," ","q",Backtick,"}"," ","$","p"," ","$",Backtick,"p",Backtick," ",":",Backtick,"L",Backtick," ",":"," ","L"," ","f"," ","(","x",")"," ","?">>

\* f((a)-[r]->(b))
Sample_nested ==
  <<"f","(","(","a",")","-","[","r","]","-",">","(","b",")",")">>

\* (a\n;b) // c\n
Sample_semicolon_in_paren ==
  <<"(","a","\n",";","b",")"," ","/","/"," ","c","\n">>

\* (a\n)-[r]->(b) // c\n
Sample_adjacency_comment ==
  <<"(","a","\n",")","-","[","r","]","-",">","(","b",")"," ","/","/"," ","c","\n">>

\* 1.5e3 2e-1 .5 7
Sample_numbers ==
  <<"1",".","5","e","3"," ","2","e","-","1"," ",".","5"," ","7">>

\* [CALL db.x AS y] (CALL db.x AS y) CALL db.x AS y
Sample_keyword_call ==
  <<"[","C","A","L","L"," ","d","b",".","x"," ","A","S"," ","y","]"," ","(","C","A","L","L"," ","d","b",".","x"," ","A","S"," ","y",")"," ","C","A","L","L"," ","d","b",".","x"," ","A","S"," ","y">>

\* )]} (]}) [)}] {)]}
Sample_foreign_closers ==
  <<")","]","}"," ","(","]","}",")"," ","[",")","}","]"," ","{",")","]","}">>

\* 'a' // c\n(\n;) // d\n
Sample_comment_after_string ==
  <<"'","a","'"," ","/","/"," ","c","\n","(","\n",";",")"," ","/","/"," ","d","\n">>

\* MATCHED
Sample_matched ==
  <<"M","A","T","C","H","E","D">>

\* match_1
Sample_match_1 ==
  <<"m","a","t","c","h","_","1">>

\* ORDERS
Sample_orders ==
  <<"O","R","D","E","R","S">>

\* nullable
Sample_nullable ==
  <<"n","u","l","l","a","b","l","e">>

NamedSamples ==
  { Sample_pattern,
    Sample_create_unique,
    Sample_le,
    Sample_two_statements,
    Sample_empty_statements,
    Sample_string,
    Sample_line_comment,
    Sample_chain,
    Sample_arrows,
    Sample_block_comment,
    Sample_grouped,
    Sample_nested,
    Sample_semicolon_in_paren,
    Sample_adjacency_comment,
    Sample_numbers,
    Sample_keyword_call,
    Sample_foreign_closers,
    Sample_comment_after_string,
    Sample_matched,
    Sample_match_1,
    Sample_orders,
    Sample_nullable }

Samples ==
  NamedSamples
  \cup Range(cypher_keywords) \cup Range(cypher_pseudo_keywords)
  \cup Range(cypher_operator_symbols) \cup Range(cypher_operator_words)
  \cup Range(cypher_constants)

\* str.lower() of one character.
Lower(c) ==
  IF c \in UpperLetters THEN CHOOSE l \in DOMAIN UpperOf : UpperOf[l] = c ELSE c

\* A phrase in lower case, a space and a newline for each of its spaces, and a
\* space after it.
RECURSIVE Respaced(_)
Respaced(word) ==
  IF word = <<>> THEN <<" ">>
  ELSE (IF Head(word) = " " THEN <<" ", "\n">> ELSE <<Lower(Head(word))>>)
       \o Respaced(Tail(word))

KeywordVariants == {Respaced(w) : w \in Range(cypher_keywords)}

\* The literals of the word tables that are identifiers.
WordLiterals ==
  {w \in Range(cypher_keywords) \cup Range(cypher_pseudo_keywords)
        \cup Range(cypher_operator_words) \cup Range(cypher_constants) :
     w[1] \in IdentStart /\ \A i \in 1..Len(w) : w[i] \in IdentChars}

\* An identifier that starts with a literal: the literal and a suffix.
Suffixes == { <<"s">>, <<"_", "1">> }

LongerIdentifiers == {w \o s : w \in WordLiterals, s \in Suffixes}

MaxChunks == 3

Chunks ==
  { <<"a">>, <<";">>, <<" ">>, <<"\n">>, <<"(">>, <<")">>, <<"[">>, <<"]">>,
    <<"/", "/">>, <<"/", "*">>, <<"*", "/">>, <<"'">> }

RECURSIVE ChunkTexts(_)
ChunkTexts(n) ==
  IF n = 0 THEN {<<>>}
  ELSE LET shorter == ChunkTexts(n - 1)
       IN  shorter \cup {t \o c : t \in shorter, c \in Chunks}

Inputs ==
  ChunkTexts(MaxChunks) \cup Samples \cup KeywordVariants \cup LongerIdentifiers

(***************************************************************************)
(* State.  text is the argument of get_statements; pos and statestack are   *)
(* the driver's; tokens are the tokens yielded so far and consumed counts   *)
(* those get_statements has taken; fragments and statements are             *)
(* get_statements' accumulator and the statements it has yielded.  stacks   *)
(* and cuts are history: stacks[i] is the state stack the rule of tokens[i] *)
(* was matched in, cuts the offsets of the ";" tokens that ended a          *)
(* statement segment.  calls counts the calls of get_statements made on the *)
(* lexer, and earlier holds, in call order, what each finished call was     *)
(* given and left.                                                         *)
(***************************************************************************)
VARIABLES text, pos, statestack, tokens, stacks, consumed, fragments,
          statements, cuts, done, calls, earlier

vars == << text, pos, statestack, tokens, stacks, consumed, fragments,
           statements, cuts, done, calls, earlier >>

Top == statestack[Len(statestack)]

Found == FirstMatch(TokenDefs(Top), text, pos)

Lexing == ~done /\ consumed = Len(tokens)

Init ==
  /\ text \in Inputs
  /\ pos = 0
  /\ statestack = <<"root">>
  /\ tokens = <<>>
  /\ stacks = <<>>
  /\ consumed = 0
  /\ fragments = <<>>
  /\ statements = <<>>
  /\ cuts = <<>>
  /\ done = FALSE
  /\ calls = 1
  /\ earlier = <<>>

\* Driver: the first matching rule of the state on top of the stack yields
\* its tokens, the offset moves to the end of the match and the rule's
\* transition is applied.
Match ==
  /\ Lexing
  /\ \E found \in {Found} :
       /\ found.rule > 0
       /\ LET rule == TokenDefs(Top)[found.rule]
          IN  \E new \in {Yielded(rule, found.m, text)} :
                /\ tokens' = tokens \o new
                /\ stacks' = stacks \o [i \in 1..Len(new) |-> statestack]
                /\ pos' = found.m.end
                /\ statestack' = Transition(statestack, rule.new)
  /\ UNCHANGED << text, consumed, fragments, statements, cuts, done, calls, earlier >>

\* Driver: no rule matches: one Error token of one character.
Fallback ==
  /\ Lexing
  /\ pos < Len(text)
  /\ Found.rule = 0
  /\ tokens' = Append(tokens, Token(pos, "Error", <<text[pos + 1]>>))
  /\ stacks' = Append(stacks, statestack)
  /\ pos' = pos + 1
  /\ UNCHANGED << text, statestack, consumed, fragments, statements, cuts, done, calls, earlier >>

\* Separator that yields the statement and keeps the accumulator.
Separator_KeepFragments ==
  /\ consumed < Len(tokens)
  /\ LET tok == tokens[consumed + 1]
     IN  /\ tok.type = "Punctuation" /\ tok.value = <<";">>
         /\ statements' = Flush(statements, fragments)
         /\ cuts' = Append(cuts, tok.index)
  /\ consumed' = consumed + 1
  /\ UNCHANGED << text, pos, statestack, tokens, stacks, fragments, done, calls, earlier >>

\* get_statements: the loop body for a Punctuation token ";".
Separator ==
  /\ consumed < Len(tokens)
  /\ LET tok == tokens[consumed + 1]
     IN  /\ tok.type = "Punctuation" /\ tok.value = <<";">>
         /\ statements' = Flush(statements, fragments)
         /\ fragments' = <<>>
         /\ cuts' = Append(cuts, tok.index)
  /\ consumed' = consumed + 1
  /\ UNCHANGED << text, pos, statestack, tokens, stacks, done, calls, earlier >>

\* get_statements: the loop body for any other token.
Fragment ==
  /\ consumed < Len(tokens)
  /\ LET tok == tokens[consumed + 1]
     IN  /\ ~(tok.type = "Punctuation" /\ tok.value = <<";">>)
         /\ fragments' = Append(fragments, tok.value)
  /\ consumed' = consumed + 1
  /\ UNCHANGED << text, pos, statestack, tokens, stacks, statements, cuts, done, calls, earlier >>

\* The driver ends at the end of the text; get_statements yields what is
\* left in the accumulator.
Finish ==
  /\ Lexing
  /\ pos >= Len(text)
  /\ Found.rule = 0
  /\ statements' = Flush(statements, fragments)
  /\ done' = TRUE
  /\ UNCHANGED << text, pos, statestack, tokens, stacks, consumed, fragments, cuts, calls, earlier >>

\* The texts of the calls made one after another on one lexer.
CallInputs ==
  { <<"(", "a">>, <<"/", "*", " ", "x">>, <<"a", ";", "b">>, <<"[", "a", ";">>,
    <<"R", "E", "T", "U", "R", "N", " ", "1", ";">> }

MaxCalls == 3

\* Call with the accumulator kept from the call before.
Call_KeepFragments ==
  /\ done
  /\ calls < MaxCalls
  /\ text' \in CallInputs
  /\ earlier' = Append(earlier, [text |-> text, tokens |-> tokens,
                                 statements |-> statements,
                                 statestack |-> statestack,
                                 fragments |-> fragments])
  /\ pos' = 0
  /\ statestack' = <<"root">>
  /\ tokens' = <<>>
  /\ stacks' = <<>>
  /\ consumed' = 0
  /\ statements' = <<>>
  /\ cuts' = <<>>
  /\ done' = FALSE
  /\ calls' = calls + 1
  /\ UNCHANGED fragments

\* A further call of get_statements on the same lexer, after a finished one:
\* fragments is a new list and the token pass starts at offset 0 in root.
Call ==
  /\ done
  /\ calls < MaxCalls
  /\ text' \in CallInputs
  /\ earlier' = Append(earlier, [text |-> text, tokens |-> tokens,
                                 statements |-> statements,
                                 statestack |-> statestack,
                                 fragments |-> fragments])
  /\ pos' = 0
  /\ statestack' = <<"root">>
  /\ tokens' = <<>>
  /\ stacks' = <<>>
  /\ consumed' = 0
  /\ fragments' = <<>>
  /\ statements' = <<>>
  /\ cuts' = <<>>
  /\ done' = FALSE
  /\ calls' = calls + 1

Next == Match \/ Fallback \/ Separator \/ Fragment \/ Finish

Spec == Init /\ [][Next]_vars

\* The generator is run to its end: a step that can be taken is taken.
MaxFairChunks == 2

FairInputs == ChunkTexts(MaxFairChunks) \cup NamedSamples

InitFair == Init /\ text \in FairInputs

FairSpec == InitFair /\ [][Next]_vars /\ WF_vars(Next)

\* Calls one after another on one lexer.
InitCalls == Init /\ text \in CallInputs

NextCalls == Next \/ Call

SpecCalls == InitCalls /\ [][NextCalls]_vars


(***************************************************************************)
(* Properties.                                                             *)
(***************************************************************************)
TopOf(stack) == stack[Len(stack)]

LexingStates == {"root", "in-()", "in-[]", "in-{}"}

BracketStates == {"in-()", "in-[]", "in-{}"}

\* The state stack after the step that yielded tokens[i], for the last token
\* of a step.
StackAfter(i) == IF i < Len(tokens) THEN stacks[i + 1] ELSE statestack

\* The segments of a text cut at the offsets cs (increasing): segment k, for
\* k in 0..Len(cs), runs from SegStart to SegEnd.
SegStart(cs, k) == IF k = 0 THEN 0 ELSE cs[k] + 1

SegEnd(t, cs, k) == IF k = Len(cs) THEN Len(t) ELSE cs[k + 1]

\* text[a:b] without the whitespace at its two ends.
Trimmed(t, a, b) ==
  LET solid == {i \in a..(b - 1) : Ch(t, i) \notin Space}
  IN  IF solid = {} THEN <<>>
      ELSE Slice(t, CHOOSE i \in solid : \A j \in solid : i <= j,
                    1 + CHOOSE i \in solid : \A j \in solid : j <= i)

NonEmpty(s) == s # <<>>

\* The trimmed non-blank segments of t cut at cs, in order.
SegStatements(t, cs) ==
  SelectSeq([k \in 1..(Len(cs) + 1) |->
               Trimmed(t, SegStart(cs, k - 1), SegEnd(t, cs, k - 1))],
            NonEmpty)

\* C1: the tokens yielded so far are contiguous from offset 0 and their texts
\* concatenate to the text read so far, text[0:pos]; at the end of the pass
\* that is the whole input.
C1_TotalCoverage ==
  /\ \A i \in 1..Len(tokens) :
       tokens[i].index =
         IF i = 1 THEN 0 ELSE tokens[i - 1].index + Len(tokens[i - 1].value)
  /\ Join([i \in 1..Len(tokens) |-> tokens[i].value]) = Slice(text, 0, pos)
  /\ done => pos = Len(text)

\* A finished pass in which labels, functions, procedures, aliases and
\* parameters rules fired and a character fell back to an Error token.
C1_Witness ==
  /\ done
  /\ \A type \in {"Name.Label", "Name.Function", "Name.Variable.Global",
                   "Whitespace", "Error"} :
       \E i \in 1..Len(tokens) : tokens[i].type = type
  /\ \E i \in 1..(Len(tokens) - 2) :
       /\ tokens[i].type = "Keyword" /\ tokens[i + 1].type = "Whitespace"
       /\ tokens[i + 2].type = "Name.Function"
  /\ \E i \in 1..(Len(tokens) - 2) :
       /\ tokens[i].type = "Keyword" /\ tokens[i + 1].type = "Whitespace"
       /\ tokens[i + 2].type = "Name.Variable"

\* C2: the state stack is never empty and its bottom is root; a state with a
\* rule that pops is on top only when the stack holds at least two states,
\* and root has no such rule.
C2_StackFloor ==
  /\ Len(statestack) >= 1
  /\ statestack[1] = "root"
  /\ \A i \in 1..Len(TokenDefs(Top)) :
       (\E k \in 1..Len(TokenDefs(Top)[i].new) : TokenDefs(Top)[i].new[k] = "#pop")
         => Top # "root" /\ Len(statestack) >= 2

\* A pass that went three states deep, took a pop-then-push transition and
\* is back in root.
C2_Witness ==
  /\ statestack = <<"root">>
  /\ \E i \in 1..Len(stacks) : Len(stacks[i]) >= 3
  /\ \E i \in 1..(Len(stacks) - 1) :
       /\ Len(stacks[i]) = Len(stacks[i + 1]) /\ Len(stacks[i]) >= 2
       /\ TopOf(stacks[i]) = "in-()" /\ TopOf(stacks[i + 1]) = "in-[]"

\* C3: every statement yielded is non-empty and has no whitespace at either
\* end; the number of statements is the number of segments, between the ";"
\* tokens that ended a segment, that are not blank; a text of ";" and
\* whitespace only yields nothing.
C3_StatementsTrimmed ==
  /\ \A i \in 1..Len(statements) :
       /\ statements[i] # <<>>
       /\ statements[i][1] \notin Space
       /\ statements[i][Len(statements[i])] \notin Space
  /\ done =>
       /\ Len(statements) =
            Cardinality({k \in 0..Len(cuts) :
                           \E i \in SegStart(cuts, k)..(SegEnd(text, cuts, k) - 1) :
                             Ch(text, i) \notin Space})
       /\ (\A i \in 1..Len(text) : text[i] \in Space \cup {";"}) => statements = <<>>

\* A finished pass with a statement that lost whitespace at its ends and with
\* blank segments that yielded nothing.
C3_Witness ==
  /\ done
  /\ Len(statements) >= 1
  /\ Len(statements) <= Len(cuts)
  /\ \E k \in 0..Len(cuts) :
       /\ SegStart(cuts, k) < SegEnd(text, cuts, k)
       /\ Ch(text, SegStart(cuts, k)) \in Space
       /\ \E i \in SegStart(cuts, k)..(SegEnd(text, cuts, k) - 1) :
            Ch(text, i) \notin Space

\* The offset after the "*/" that closes a block comment open n deep at
\* offset i, the end of the text when it is never closed.
RECURSIVE BlockCommentEnd(_, _, _)
BlockCommentEnd(t, i, n) ==
  IF i >= Len(t) THEN Len(t)
  ELSE IF Ch(t, i) = "/" /\ Ch(t, i + 1) = "*" THEN BlockCommentEnd(t, i + 2, n + 1)
  ELSE IF Ch(t, i) = "*" /\ Ch(t, i + 1) = "/"
       THEN IF n = 1 THEN i + 2 ELSE BlockCommentEnd(t, i + 2, n - 1)
  ELSE BlockCommentEnd(t, i + 1, n)

Closer(open) == CASE open = "(" -> ")" [] open = "[" -> "]" [] open = "{" -> "}"

\* The offsets, in order, of the ";" of t from offset i on that lie outside
\* brackets (open holds the brackets open at i), quoted strings, backquoted
\* names, line comments ("//" to the end of the line) and block comments
\* ("/*" to its matching "*/").
RECURSIVE TopLevelSemicolons(_, _, _)
TopLevelSemicolons(t, i, open) ==
  LET c == Ch(t, i)
      d == Ch(t, i + 1)
      nl == LineEnd(t, i)
  IN  IF i >= Len(t) THEN <<>>
      ELSE IF c \in {"'", "\""} /\ MatchString(t, i, c) >= 0
      THEN TopLevelSemicolons(t, MatchString(t, i, c), open)
      ELSE IF c = Backtick /\ MatchBackquoted(t, i) >= 0
      THEN TopLevelSemicolons(t, MatchBackquoted(t, i), open)
      ELSE IF c = "/" /\ d = "/"
      THEN TopLevelSemicolons(t, IF nl < 0 THEN Len(t) ELSE nl + 1, open)
      ELSE IF c = "/" /\ d = "*"
      THEN TopLevelSemicolons(t, BlockCommentEnd(t, i + 2, 1), open)
      ELSE IF c \in {"(", "[", "{"}
      THEN TopLevelSemicolons(t, i + 1, Append(open, c))
      ELSE IF open # <<>> /\ c = Closer(open[Len(open)])
      THEN TopLevelSemicolons(t, i + 1, SubSeq(open, 1, Len(open) - 1))
      ELSE IF c = ";" /\ open = <<>>
      THEN <<i>> \o TopLevelSemicolons(t, i + 1, open)
      ELSE TopLevelSemicolons(t, i + 1, open)

\* C4: at the end of the pass the statements yielded are the trimmed
\* non-blank segments of the text cut at every ";" outside brackets, strings,
\* backquoted names and comments.
C4_SplitAtTopLevelSemicolons ==
  done => statements = SegStatements(text, TopLevelSemicolons(text, 0, <<>>))

\* v occurs in s as a contiguous run.
Contains(s, v) ==
  \E k \in 0..(Len(s) - Len(v)) : SubSeq(s, k + 1, k + Len(v)) = v

C6_SemicolonOnlyInRoot ==
  \A i \in 1..Len(tokens) :
    /\ (tokens[i].type = "Punctuation" /\ tokens[i].value = <<";">>)
         => TopOf(stacks[i]) = "root"
    /\ (Ch(text, tokens[i].index) = ";" /\ TopOf(stacks[i]) \in BracketStates)
         => tokens[i] = Token(tokens[i].index, "Error", <<";">>)
    /\ (Ch(text, tokens[i].index) = ";" /\ TopOf(stacks[i]) = "multiline-comments")
         => tokens[i].type = "Comment.Multiline"
    /\ (\E k \in 1..Len(cuts) : cuts[k] = tokens[i].index)
         => stacks[i] = <<"root">>

\* The characters of the text that are neither whitespace nor a ";" that
\* ended a statement, in order.
Solid(t, cs) ==
  LET at == SelectSeq([i \in 1..Len(t) |-> i],
                      LAMBDA i : t[i] \notin Space
                                 /\ \A k \in 1..Len(cs) : cs[k] # i - 1)
  IN  [k \in 1..Len(at) |-> t[at[k]]]

NotSpace(c) == c \notin Space

\* C7: at the end of the pass the statements are the trimmed non-blank
\* segments of the text between the ";" tokens that ended a statement, so
\* the text is the statements with those ";" and the trimmed whitespace put
\* back; the characters that are neither whitespace nor such a ";" are those
\* of the statements, in order.
C7_NothingInventedOrLost ==
  /\ \A k \in 1..Len(cuts) :
       /\ Ch(text, cuts[k]) = ";"
       /\ k > 1 => cuts[k - 1] < cuts[k]
  /\ done =>
       /\ statements = SegStatements(text, cuts)
       /\ SelectSeq(Join(statements), NotSpace) = Solid(text, cuts)

\* A finished pass that yielded two statements or more and dropped
\* whitespace around them.
C7_Witness ==
  /\ done
  /\ Len(statements) >= 2
  /\ Len(cuts) >= 2
  /\ \E k \in 1..Len(cuts) : Ch(text, cuts[k] + 1) \in Space
  /\ \E i \in 1..Len(statements) : \E j \in 1..Len(statements[i]) :
       statements[i][j] \in Space

\* The sequence s without the repetitions of an element next to itself.
RECURSIVE Dedupe(_)
Dedupe(s) ==
  IF Len(s) <= 1 THEN s
  ELSE IF s[1] = s[2] THEN Dedupe(Tail(s))
  ELSE <<s[1]>> \o Dedupe(Tail(s))

\* C8: with in-() on top, a token that starts where ")", an arrow and "[" can
\* be read is that whole span as one Punctuation token and the step replaces
\* the top by in-[]; with in-[] on top, "]", an arrow and "(" likewise
\* replace the top by in-().  The pass over (a)-[:REL]->(b) visits root,
\* in-(), in-[], in-(), root and only its first token is produced in root.
C8_BracketAdjacency ==
  /\ \A i \in 1..Len(tokens) :
       LET a == tokens[i].index
           e1 == MatchAdjacency(text, a, ")", TRUE, FALSE, "[")
           e2 == MatchAdjacency(text, a, "]", FALSE, TRUE, "(")
           below == SubSeq(stacks[i], 1, Len(stacks[i]) - 1)
       IN  /\ (TopOf(stacks[i]) = "in-()" /\ e1 >= 0) =>
                /\ tokens[i] = Token(a, "Punctuation", Slice(text, a, e1))
                /\ StackAfter(i) = Append(below, "in-[]")
           /\ (TopOf(stacks[i]) = "in-[]" /\ e2 >= 0) =>
                /\ tokens[i] = Token(a, "Punctuation", Slice(text, a, e2))
                /\ StackAfter(i) = Append(below, "in-()")
  /\ (text = Sample_pattern /\ done) =>
       /\ Dedupe([i \in 1..(Len(stacks) + 1) |->
                    IF i <= Len(stacks) THEN TopOf(stacks[i]) ELSE Top])
            = <<"root", "in-()", "in-[]", "in-()", "root">>
       /\ \A i \in 2..Len(tokens) : TopOf(stacks[i]) # "root"

StrictPrefix(s, l) == Len(s) < Len(l) /\ SubSeq(l, 1, Len(s)) = s

WordPattern(word) == ReplaceSpaces(word) \o <<"\\", "b">>

\* The grammar tables with the rule list compiled from each and the pattern
\* of each literal.
Tables ==
  { [literals |-> cypher_keywords, rules |-> keywords, type |-> "Keyword",
     patterns |-> [i \in 1..Len(cypher_keywords) |-> WordPattern(cypher_keywords[i])]],
    [literals |-> cypher_pseudo_keywords, rules |-> pseudo_keywords, type |-> "Keyword",
     patterns |-> [i \in 1..Len(cypher_pseudo_keywords) |->
                     WordPattern(cypher_pseudo_keywords[i])]],
    [literals |-> cypher_operator_words, rules |-> operators, type |-> "Operator",
     patterns |-> [i \in 1..Len(cypher_operator_words) |->
                     WordPattern(cypher_operator_words[i])]],
    [literals |-> cypher_operator_symbols, rules |-> operators, type |-> "Operator",
     patterns |-> [i \in 1..Len(cypher_operator_symbols) |->
                     EscapeAll(cypher_operator_symbols[i])]],
    [literals |-> cypher_constants, rules |-> constants, type |-> "Name.Constant",
     patterns |-> [i \in 1..Len(cypher_constants) |-> WordPattern(cypher_constants[i])]] }

\* The literals that extend another literal of their table: <<tb, l, s>> for
\* literal l of table tb and its strict prefix, literal s.
Extensions ==
  {e \in UNION {{tb} \X (DOMAIN tb.literals) \X (DOMAIN tb.literals) : tb \in Tables} :
     StrictPrefix(e[1].literals[e[3]], e[1].literals[e[2]])}

ExtensionTexts == {e[1].literals[e[2]] : e \in Extensions}

\* The position of the rule with pattern pat in rules.
RulePosition(rules, pat) == CHOOSE p \in 1..Len(rules) : rules[p].pat = pat

\* C9: when the text is a literal of a table that extends another literal of
\* the table, the first rule of the table's list that matches at offset 0 is
\* the rule of that literal and it matches the whole text, and the pass
\* yields it as one token; CREATE UNIQUE (n) starts with the Keyword token
\* CREATE UNIQUE and <= is one Operator token.
C9_NoShadowing ==
  /\ text \in ExtensionTexts =>
       \A e \in Extensions :
         text = e[1].literals[e[2]] =>
           LET first == FirstMatch(e[1].rules, text, 0)
           IN  /\ first.rule > 0
               /\ e[1].rules[first.rule].pat = e[1].patterns[e[2]]
               /\ first.m.end = Len(text)
               /\ done => tokens = << Token(0, e[1].type, text) >>
  /\ (text = Sample_create_unique /\ tokens # <<>>) =>
       tokens[1] = Token(0, "Keyword", Slice(text, 0, 13))
  /\ (text = Sample_le /\ done) => tokens = << Token(0, "Operator", text) >>

\* A finished pass over a literal with a space that extends another literal
\* of its table, yielded as one token.
C9_Witness ==
  /\ done
  /\ Len(tokens) = 1
  /\ text \in ExtensionTexts
  /\ \E k \in 1..Len(text) : text[k] = " "

\* C10: in the rule list compiled from a table, the rule of a literal comes
\* before the rule of every literal of the table that is a strict prefix of
\* it.
C10_LongerLiteralFirst ==
  text \in ExtensionTexts =>
    \A e \in Extensions :
      text = e[1].literals[e[2]] =>
        RulePosition(e[1].rules, e[1].patterns[e[2]])
          < RulePosition(e[1].rules, e[1].patterns[e[3]])

\* The offset after phrase written at offset p of t in any letter case and
\* with a non-empty run of whitespace for each of its spaces, or -1.
RECURSIVE Spells(_, _, _)
Spells(phrase, t, p) ==
  IF phrase = <<>> THEN p
  ELSE IF Head(phrase) = " "
  THEN IF Ch(t, p) \in Space
       THEN Spells(Tail(phrase), t, SkipWhile(t, p, Space))
       ELSE -1
  ELSE IF Ch(t, p) # "" /\ Fold(Ch(t, p)) = Fold(Head(phrase))
       THEN Spells(Tail(phrase), t, p + 1)
       ELSE -1

\* The ends of the phrases of cypher_keywords written at offset 0 of t and
\* followed by whitespace or by the end of t.
KeywordEnds(t) ==
  {e \in {Spells(cypher_keywords[k], t, 0) : k \in DOMAIN cypher_keywords} :
     e >= 0 /\ (e = Len(t) \/ Ch(t, e) \in Space)}

HasLineComment(t) == \E i \in 0..(Len(t) - 2) : Ch(t, i) = "/" /\ Ch(t, i + 1) = "/"

\* C11: when the text starts with a phrase of cypher_keywords, in any letter
\* case and with any whitespace between its words, followed by whitespace or
\* the end of the text, and the text has no "//", the first token is one
\* Keyword token that covers the phrase (the longest such phrase).
C11_KeywordPhrases ==
  (KeywordEnds(text) # {} /\ ~HasLineComment(text) /\ tokens # <<>>) =>
    LET e == CHOOSE e \in KeywordEnds(text) : \A f \in KeywordEnds(text) : f <= e
    IN  tokens[1] = Token(0, "Keyword", Slice(text, 0, e))

\* [A-Za-z_][0-9A-Za-z_]* : t is an identifier.
IsIdentifier(t) ==
  /\ t # <<>>
  /\ t[1] \in IdentStart
  /\ \A i \in 1..Len(t) : t[i] \in IdentChars

\* s and t are equal up to letter case.
SameWord(s, t) == Len(s) = Len(t) /\ \A i \in 1..Len(s) : Fold(s[i]) = Fold(t[i])

\* t is a literal of a word table followed by one or more characters.
StartsWithLiteral(t) ==
  \E w \in WordLiterals : Len(w) < Len(t) /\ SameWord(w, SubSeq(t, 1, Len(w)))

\* t is itself a literal of a word table.
IsWordLiteral(t) == \E w \in WordLiterals : SameWord(w, t)

C13_CallIsolation ==
  /\ (pos = 0 /\ tokens = <<>> /\ ~done) =>
       (statestack = <<"root">> /\ fragments = <<>>)
  /\ done =>
       \A k \in 1..Len(earlier) :
         earlier[k].text = text =>
           (earlier[k].tokens = tokens /\ earlier[k].statements = statements)

\* A third call finished on the text of the first, after a second call on
\* another text that ended in an open bracket or comment with a non-empty
\* accumulator.
C13_Witness ==
  /\ done
  /\ Len(earlier) = 2
  /\ earlier[1].text = text
  /\ earlier[2].text # text
  /\ earlier[2].statestack # <<"root">>
  /\ earlier[2].fragments # <<>>
  /\ fragments # <<>>

\* The text reads a then b at offset i.
Reads(t, i, a, b) == Ch(t, i) = a /\ Ch(t, i + 1) = b

CommentLayers(stack) ==
  Cardinality({k \in 1..Len(stack) : stack[k] = "multiline-comments"})

\* C14: a token that starts at "/*", in a lexing state or inside a block
\* comment, is the Comment.Multiline token "/*" and its step pushes one
\* multiline-comments layer; a token that starts at "*/" inside a block
\* comment is the Comment.Multiline token "*/" and its step pops one layer;
\* every token produced with a comment layer on top is Comment.Multiline; the
\* layers on the stack are the "/*" tokens less the "*/" tokens so far; the
\* nested comment /* a /* b;\n */ c */ is comment tokens only, which
\* concatenate to it, and ends in root.
C14_NestedBlockComments ==
  /\ \A i \in 1..Len(tokens) :
       LET a == tokens[i].index
           top == TopOf(stacks[i])
       IN  /\ (top \in LexingStates \cup {"multiline-comments"}
                 /\ Reads(text, a, "/", "*")) =>
                /\ tokens[i] = Token(a, "Comment.Multiline", <<"/", "*">>)
                /\ StackAfter(i) = Append(stacks[i], "multiline-comments")
           /\ (top = "multiline-comments" /\ Reads(text, a, "*", "/")) =>
                /\ tokens[i] = Token(a, "Comment.Multiline", <<"*", "/">>)
                /\ StackAfter(i) = SubSeq(stacks[i], 1, Len(stacks[i]) - 1)
           /\ top = "multiline-comments" => tokens[i].type = "Comment.Multiline"
  /\ CommentLayers(statestack) =
       Cardinality({i \in 1..Len(tokens) : tokens[i].value = <<"/", "*">>})
       - Cardinality({i \in 1..Len(tokens) : tokens[i].value = <<"*", "/">>})
  /\ (text = Sample_block_comment /\ done) =>
       /\ statestack = <<"root">>
       /\ \A i \in 1..Len(tokens) : tokens[i].type = "Comment.Multiline"
       /\ Join([i \in 1..Len(tokens) |-> tokens[i].value]) = text

\* C15: no rule of the state on top of the stack matches the empty string at
\* the current offset; every driver step, a rule match or the Error
\* fallback, moves the offset forward; and the pass and get_statements
\* finish, with the offset at the end of the text.
C15_ProgressAndTermination ==
  /\ [](\A r \in 1..Len(TokenDefs(Top)) :
          RuleMatch(TokenDefs(Top)[r], text, pos).end # pos)
  /\ [][(Match \/ Fallback) => pos' > pos]_vars
  /\ <>(done /\ pos = Len(text))

\* A finished pass over a text with characters no rule matches, ended inside
\* a bracket or a block comment.
C15_Witness ==
  /\ done
  /\ pos = Len(text)
  /\ Len(text) >= 3
  /\ statestack # <<"root">>
  /\ \E i \in 1..Len(tokens) : tokens[i].type = "Error"

\* The closing delimiters that do not belong to a lexing state.
Foreign(state) ==
  CASE state = "root" -> {")", "]", "}"}
    [] state = "in-()" -> {"]", "}"}
    [] state = "in-[]" -> {")", "}"}
    [] state = "in-{}" -> {")", "]"}

\* The offset after tokens[i].
EndOf(i) == tokens[i].index + Len(tokens[i].value)

\* C16: a token that starts where no rule of the state on top matches is an
\* Error token; an Error token is the one character at its offset, the next
\* token starts one character on and the stack is as before; a token that
\* starts at a closing delimiter that does not belong to the lexing state on
\* top is an Error token, and the stack is as before.
C16_ErrorFallback ==
  \A i \in 1..Len(tokens) :
    LET a == tokens[i].index
        top == TopOf(stacks[i])
    IN  /\ Matching(TokenDefs(top), text, a) = {} => tokens[i].type = "Error"
        /\ tokens[i].type = "Error" =>
             /\ tokens[i].value = <<Ch(text, a)>>
             /\ StackAfter(i) = stacks[i]
             /\ (IF i < Len(tokens) THEN tokens[i + 1].index ELSE pos) = a + 1
        /\ (top \in LexingStates /\ Ch(text, a) \in Foreign(top)) =>
             /\ tokens[i] = Token(a, "Error", <<Ch(text, a)>>)
             /\ StackAfter(i) = stacks[i]

\* The offset just after the "*/" that closes a block comment of depth n
\* whose body is read from offset i, or -1 when the text ends first.
RECURSIVE BlockCommentClose(_, _, _)
BlockCommentClose(t, i, n) ==
  IF i >= Len(t) THEN -1
  ELSE IF Reads(t, i, "/", "*") THEN BlockCommentClose(t, i + 2, n + 1)
  ELSE IF Reads(t, i, "*", "/")
       THEN IF n = 1 THEN i + 2 ELSE BlockCommentClose(t, i + 2, n - 1)
  ELSE BlockCommentClose(t, i + 1, n)

\* The brackets left open at the end of t, read from offset i with the
\* brackets of open not yet closed; strings, backquoted names and comments
\* are passed over.  <<"*">> stands for a comment that is not closed (a
\* block comment without its "*/", a line comment without its newline) and
\* <<"?">> for a closing bracket that closes nothing.
RECURSIVE Nesting(_, _, _)
Nesting(t, i, open) ==
  LET c == Ch(t, i)
      nl == LineEnd(t, i)
      ce == BlockCommentClose(t, i + 2, 1)
  IN  IF i >= Len(t) THEN open
      ELSE IF c \in {"'", "\""} /\ MatchString(t, i, c) >= 0
      THEN Nesting(t, MatchString(t, i, c), open)
      ELSE IF c = Backtick /\ MatchBackquoted(t, i) >= 0
      THEN Nesting(t, MatchBackquoted(t, i), open)
      ELSE IF Reads(t, i, "/", "/")
      THEN IF nl < 0 THEN <<"*">> ELSE Nesting(t, nl + 1, open)
      ELSE IF Reads(t, i, "/", "*")
      THEN IF ce < 0 THEN <<"*">> ELSE Nesting(t, ce, open)
      ELSE IF c \in {"(", "[", "{"}
      THEN Nesting(t, i + 1, Append(open, c))
      ELSE IF c \in {")", "]", "}"}
      THEN IF open # <<>> /\ c = Closer(open[Len(open)])
           THEN Nesting(t, i + 1, SubSeq(open, 1, Len(open) - 1))
           ELSE <<"?">>
      ELSE Nesting(t, i + 1, open)

WellNested(t) == Nesting(t, 0, <<>>) = <<>>

IsPush(tok) ==
  \/ tok.type = "Punctuation" /\ tok.value \in {<<"(">>, <<"[">>, <<"{">>}
  \/ tok.type = "Comment.Multiline" /\ tok.value = <<"/", "*">>

IsPop(tok) ==
  \/ tok.type = "Punctuation" /\ tok.value \in {<<")">>, <<"]">>, <<"}">>}
  \/ tok.type = "Comment.Multiline" /\ tok.value = <<"*", "/">>

\* A Punctuation token of a closing bracket, an arrow and an opening bracket.
IsAdjacency(tok) ==
  /\ tok.type = "Punctuation"
  /\ Len(tok.value) > 1
  /\ tok.value[1] \in {")", "]"}

\* C17: the height of the stack less one is the number of tokens that push
\* (an opening bracket, also of a function call, or "/*") less the number of
\* tokens that pop (a closing bracket or "*/"); an adjacency token leaves the
\* height as it was; and a pass over a text whose brackets are well nested
\* and whose comments are closed ends with the stack [root].
C17_StackHeight ==
  /\ Len(statestack) - 1 =
       Cardinality({i \in 1..Len(tokens) : IsPush(tokens[i])})
       - Cardinality({i \in 1..Len(tokens) : IsPop(tokens[i])})
  /\ \A i \in 1..Len(tokens) :
       IsAdjacency(tokens[i]) => Len(StackAfter(i)) = Len(stacks[i])
  /\ (done /\ WellNested(text)) => statestack = <<"root">>

\* The tokens that hold character c before the first "//" of their value.
BeforeSlashes(tok, c) ==
  \E k \in 1..Len(tok.value) :
    /\ tok.value[k] = c
    /\ \E s \in (k + 1)..(Len(tok.value) - 1) :
         tok.value[s] = "/" /\ tok.value[s + 1] = "/"

\* C18: a Comment.Single token starts at the start of a line that holds "//"
\* and ends with a newline, where neither string rule matches, and it is the
\* whole line from that offset through the newline; a token that starts at a
\* "//" in the middle of a line, or on a last line without a newline, is not
\* a Comment.Single token.
C18_LineComments ==
  \A i \in 1..Len(tokens) :
    LET a == tokens[i].index
        nl == LineEnd(text, a)
    IN  /\ tokens[i].type = "Comment.Single" =>
             /\ LineStart(text, a)
             /\ nl >= 0
             /\ \E k \in a..(nl - 2) : Reads(text, k, "/", "/")
             /\ MatchString(text, a, "'") < 0
             /\ MatchString(text, a, "\"") < 0
             /\ tokens[i].value = Slice(text, a, nl + 1)
             /\ EndOf(i) = nl + 1
        /\ (Reads(text, a, "/", "/") /\ (~LineStart(text, a) \/ nl < 0)) =>
             tokens[i].type # "Comment.Single"

\* The pass is over, a Comment.Single token holds a ";" and a bracket before
\* its "//", and a "//" in the middle of a line was read as something else.
C18_Witness ==
  /\ done
  /\ \E i \in 1..Len(tokens) :
       /\ tokens[i].type = "Comment.Single"
       /\ BeforeSlashes(tokens[i], ";")
       /\ BeforeSlashes(tokens[i], ")")
  /\ \E i \in 1..Len(tokens) :
       /\ Reads(text, tokens[i].index, "/", "/")
       /\ ~LineStart(text, tokens[i].index)
       /\ tokens[i].type = "Operator"

\* The grouped rules of 'procedures' and 'aliases'.
GroupedKeywordRules == {"procedures[0]", "aliases[0]", "aliases[1]"}

\* The states that include 'keywords' before 'expressions'.
KeywordContexts == {"root", "in-()"}

\* The word that a grouped rule starts with.
FirstWord(re) ==
  IF re = "procedures[0]" THEN <<"C", "A", "L", "L">> ELSE <<"A", "S">>

\* The rules of a state that come before rule r and are the keyword rule of
\* the word, word\b.
KeywordRulesBefore(state, r, word) ==
  {k \in 1..(r - 1) :
     /\ TokenDefs(state)[k].re = "compiled"
     /\ TokenDefs(state)[k].action = <<"Keyword">>
     /\ TokenDefs(state)[k].pat = word \o <<"\\", "b">>}

\* The grouped rules of the keyword contexts, as <<state, index>>.
GroupedInKeywordContexts ==
  {sr \in UNION {{<<s, r>> : r \in 1..Len(TokenDefs(s))} : s \in KeywordContexts} :
     TokenDefs(sr[1])[sr[2]].re \in GroupedKeywordRules}

\* <<state, r, k>>: r is a grouped rule of a keyword context and k the
\* keyword rule of its first word, which comes before it.
KeywordBeforeGrouped ==
  UNION {{<<sr[1], sr[2], k>> :
            k \in KeywordRulesBefore(sr[1], sr[2],
                                     FirstWord(TokenDefs(sr[1])[sr[2]].re))} :
         sr \in GroupedInKeywordContexts}

\* C19: in root and in in-() the rule of 'procedures' and the rules of
\* 'aliases' are never the first rule that matches: wherever one of them
\* matches, the keyword rule CALL\b or AS\b, which comes before it, matches
\* too, and the first rule that matches comes before it.
C19_GroupedRulesDead ==
  \A sr \in GroupedInKeywordContexts :
    RuleMatch(TokenDefs(sr[1])[sr[2]], text, pos).end >= 0 =>
      /\ \E srk \in KeywordBeforeGrouped :
           /\ srk[1] = sr[1]
           /\ srk[2] = sr[2]
           /\ RuleMatch(TokenDefs(sr[1])[srk[3]], text, pos).end >= 0
      /\ (Lexing /\ Top = sr[1]) => (Found.rule > 0 /\ Found.rule < sr[2])

\* The lexer is in root at a CALL where the rule of 'procedures' matches,
\* after that rule and a rule of 'aliases' were the first to match in in-[].
C19_Witness ==
  /\ Lexing
  /\ Top = "root"
  /\ RuleMatch(procedures[1], text, pos).end >= 0
  /\ \E i \in 1..Len(tokens) :
       /\ TopOf(stacks[i]) = "in-[]"
       /\ tokens[i].type = "Name.Function"
  /\ \E i \in 2..Len(tokens) :
       /\ TopOf(stacks[i]) = "in-[]"
       /\ tokens[i].type = "Name.Variable"
       /\ tokens[i - 2] = Token(tokens[i - 2].index, "Keyword", <<"A", "S">>)

=============================================================================
